---- MODULE Spec2Model ----
(***************************************************************************)
(* gitqlite: a content-addressed object store behind sqlite, a staging     *)
(* index, commit construction (index -> nested trees -> commit -> Ref or   *)
(* Head) and the repo::db persistence layer.                               *)
(*                                                                         *)
(* Two layers are modelled.                                                *)
(*  - The command layer (git::cmds::* over git::model): do_init, do_add,   *)
(*    do_hash_object, do_config, do_commit.  Every conn.execute of         *)
(*    do_commit is its own step, because get_gitqlite_connection returns a *)
(*    plain autocommit Connection: each statement is durable as soon as it *)
(*    returns, and the process may stop between two of them.               *)
(*  - The repo::db layer (Object::persist / Object::read_by_id), with its  *)
(*    encodings (hex ids, concatenated parent ids, JSON snapshots).        *)
(***************************************************************************)
EXTENDS Bags, FiniteSets, Integers, Sequences, TLC

(***************************************************************************)
(* Bounds of the model.                                                    *)
(***************************************************************************)
MaxCommitOps == 2      \* commit operations started in one behaviour
MaxBlobRows == 2       \* rows of the Blobs table (it has no key: see Blob_persist)

(***************************************************************************)
(* Input domains.                                                          *)
(***************************************************************************)
\* Repository-relative paths, as sequences of path segments.
RepoPaths == { <<"root.txt">>, <<"dir", "f.txt">>, <<"dir", "sub", "f.txt">> }
\* Paths of which one was a file and is now a directory: <<"dir">> was added
\* while it was a file, <<"dir", "f.txt">> after it became a directory.
BuildPaths == { <<"root.txt">>, <<"dir">>, <<"dir", "f.txt">> }
Contents == { "x", "y" }
Messages == { "m" }
UserNames == { "alice" }
UserEmails == { "a@x" }
BranchNames == { "refs/heads/main", "refs/heads/dev" }

\* Option<T>
NoneV == <<"None">>
Some(v) == <<"Some", v>>
IsSome(o) == o[1] = "Some"
Unwrap(o) == o[2]

(***************************************************************************)
(* Paths.                                                                  *)
(***************************************************************************)
Root == <<>>
Parent(p) == SubSeq(p, 1, Len(p) - 1)
FileName(p) == p[Len(p)]

\* Length of the repository root's absolute path string (any value: only
\* differences of lengths matter to the ordering of the directories).
RootLen == 5

RECURSIVE PathStrLen(_)
\* path.to_string_lossy().len() of repo_root.join(p)
PathStrLen(p) ==
    IF p = <<>> THEN RootLen ELSE PathStrLen(Parent(p)) + 1 + Len(FileName(p))

\* Byte order of the segment names used by the model (str::cmp).
NameOrd(n) ==
    CASE n = "dir" -> 1
      [] n = "f.txt" -> 2
      [] n = "root.txt" -> 3
      [] n = "sub" -> 4

\* Inside one directory every entry name is "<dir>/<leaf>", so str::cmp of
\* the names is str::cmp of the leaves.
NameLe(a, b) == NameOrd(FileName(a)) <= NameOrd(FileName(b))

(***************************************************************************)
(* Hashing.  A digest is modelled as an injective function of the bytes    *)
(* hashed; the kind tag keeps the encodings of different kinds apart.      *)
(***************************************************************************)
Sha1(kind, bytes) == <<kind, bytes>>

\* Hashable for Blob
Blob_hash(data) == Sha1("blob", data)

TreeEntryTypeStr(t) == IF t = "Blob" THEN "blob" ELSE "tree"

\* Tree::encode_entries: one line "<mode> <type> <id> <name>" per entry, in
\* the order of the entry list.
encode_entries(entries) ==
    [i \in 1..Len(entries) |->
        <<entries[i].mode, TreeEntryTypeStr(entries[i].type_),
          entries[i].id, entries[i].name>>]

\* Tree::read_from_conn_with_id: the entry list parsed back from the lines.
decode_entries(data) ==
    [i \in 1..Len(data) |->
        [mode |-> data[i][1],
         type_ |-> IF data[i][2] = "blob" THEN "Blob" ELSE "Tree",
         id |-> data[i][3],
         name |-> data[i][4]]]

\* Hashable for Tree
Tree_hash(entries) == Sha1("tree", encode_entries(entries))

\* Hashable for Commit
Commit_hash(c) ==
    Sha1("commit", <<c.tree_id, c.parent_ids, c.author_name, c.author_email,
                     c.committer_name, c.committer_email, c.message>>)

\* Commit::new
Commit_new(tree_id, parent_ids, an, ae, cn, ce, message) ==
    [tree_id |-> tree_id, parent_ids |-> parent_ids,
     author_name |-> an, author_email |-> ae,
     committer_name |-> cn, committer_email |-> ce, message |-> message]

(***************************************************************************)
(* The store of the command layer (tables of git::model).                  *)
(***************************************************************************)
\* INSERT_BLOB on the table of CREATE_BLOB_TABLE: the table declares no key
\* (blob_id TEXT, no PRIMARY KEY), so INSERT OR IGNORE meets no conflict and
\* always adds a row.  The table is a bag of rows.

\* Blob_persist with the insert lost.
Blob_persist_Lost(tbl, id, data) == tbl

\* Blob::persist: INSERT_BLOB adds the row.
Blob_persist(tbl, id, data) == tbl (+) SetToBag({<<id, data>>})

\* Tree_persist with the insert lost.
Tree_persist_Lost(tbl, id, entries) == tbl

\* INSERT_TREE: tree_id is the PRIMARY KEY, OR IGNORE keeps the old row.
Tree_persist(tbl, id, entries) ==
    IF id \in DOMAIN tbl THEN tbl
    ELSE [k \in DOMAIN tbl \cup {id} |->
            IF k = id THEN encode_entries(entries) ELSE tbl[k]]

\* Commit_persist writing the row without its message.
Commit_persist_NoMessage(tbl, id, c) ==
    IF id \in DOMAIN tbl THEN tbl
    ELSE [k \in DOMAIN tbl \cup {id} |->
            IF k = id THEN [c EXCEPT !.message = ""] ELSE tbl[k]]

\* INSERT_COMMIT: commit_id is the PRIMARY KEY, OR IGNORE keeps the old row.
Commit_persist(tbl, id, c) ==
    IF id \in DOMAIN tbl THEN tbl
    ELSE [k \in DOMAIN tbl \cup {id} |-> IF k = id THEN c ELSE tbl[k]]

\* Ref_persist_or_update replacing the whole table instead of one row.
Ref_persist_or_update_Whole(tbl, name, commit_id) ==
    [k \in {name} |-> commit_id]

\* INSERT_OR_REPLACE_REF: ref_name is the PRIMARY KEY, the row is replaced.
Ref_persist_or_update(tbl, name, commit_id) ==
    [k \in DOMAIN tbl \cup {name} |-> IF k = name THEN commit_id ELSE tbl[k]]

\* Ref::read_from_conn_with_name (.optional())
Ref_read_from_conn_with_name(tbl, name) ==
    IF name \in DOMAIN tbl THEN Some(tbl[name]) ELSE NoneV

\* Head: one row, Branch(name) or Commit(id); <<"None">> when there is no row.
HeadBranch(name) == <<"Branch", name>>
HeadCommit(id) == <<"Commit", id>>
NoHead == <<"NoRow">>

\* Head::persist: the singleton is overwritten.
Head_persist(old, new) == new

VARIABLES
    config,             \* [name, email]: Option of user.name / user.email
    index,              \* Index.entries: Vec<IndexEntry>
    blobs,              \* Blobs table: bag of <<blob_id, data>>
    trees,              \* Trees table: tree_id -> data
    commits,            \* Commits table: commit_id -> row
    refs,               \* Refs table: ref_name -> commit_id
    head,               \* Head row
    pc,                 \* position inside do_commit
    directory_entries,  \* do_commit: directory -> Vec<BlobOrTree>
    keys,               \* do_commit: directories still to process
    tree_map,           \* do_commit: `trees`, directory -> tree id
    cur,                \* do_commit: message and the commit id once built
    last,               \* history: the operation run last and its outcome
    nops                \* commit operations started

cmdVars == <<config, index, blobs, trees, commits, refs, head, pc,
             directory_entries, keys, tree_map, cur, last, nops>>

\* The tables of the repo::db layer (src/repo/db), behind Object::persist
\* and Object::read_by_id.
VARIABLES
    db_blobs,           \* Blobs: blob_id -> data (PRIMARY KEY)
    db_trees,           \* Trees: tree_id -> JSON of the entries
    db_commits,         \* Commits: commit_id -> row
    db_refs,            \* Refs: ref_name -> commit_id
    db_head,            \* Head: list of rows (no key)
    db_index,           \* Index_: list of rows (no key)
    db_digest,          \* history: <<kind, id>> -> the content hashed to id
    db_last,            \* history: the object persisted last
    db_n                \* persist calls made

dbVars == <<db_blobs, db_trees, db_commits, db_refs, db_head, db_index,
            db_digest, db_last, db_n>>

\* The application of a pure function of the program (hashing): the function
\* applied last, its arguments and its results.
VARIABLES
    fn_op,
    fn_args,
    fn_out

fnVars == <<fn_op, fn_args, fn_out>>

\* The working tree, for the commands that stage and unstage files.
VARIABLES
    files,              \* regular files: path -> [data, mtime]
    rules,              \* .gitignore files: directory -> list of rules
    st,                 \* history: the last stage / unstage and its outcome
    st_n                \* stage / unstage / file operations made

wtVars == <<files, rules, st, st_n>>

\* What a command of the CLI, an Object call and a function application
\* leave alone.
nonCmdVars == <<dbVars, fnVars, wtVars>>
nonDbVars == <<cmdVars, fnVars, wtVars>>
nonFnVars == <<cmdVars, dbVars, wtVars>>

\* The durable state, as a value (for before/after comparisons).
Store == [blobs |-> blobs, trees |-> trees, commits |-> commits,
          refs |-> refs, head |-> head, index |-> index]

EmptyFn == [x \in {} |-> x]
NoLocals == /\ directory_entries' = EmptyFn
            /\ keys' = <<>>
            /\ tree_map' = EmptyFn
            /\ cur' = [message |-> "", commit_id |-> NoneV]

(***************************************************************************)
(* Helpers of do_commit.                                                   *)
(***************************************************************************)
\* BlobOrTree
BlobOf(entry) == <<"Blob", entry>>
TreeOf(tree_id, name, mode) == <<"Tree", tree_id, name, mode>>
\* BlobOrTree::name
BoTName(e) == IF e[1] = "Blob" THEN e[2].name ELSE e[3]

\* The grouping loop: every index entry is pushed, in index order, onto the
\* list of its parent directory (only directories that hold a staged file
\* directly get a list).
GroupEntries(idx) ==
    LET dirs == { Parent(idx[i].name) : i \in 1..Len(idx) }
        blobsOf(d) == SelectSeq(idx, LAMBDA e : Parent(e.name) = d)
    IN  [d \in dirs |-> [i \in 1..Len(blobsOf(d)) |-> BlobOf(blobsOf(d)[i])]]

\* keys.sort_by_key(-len): a stable sort of the HashMap's keys, whose
\* iteration order is arbitrary; any order with non-increasing length.
SortedKeys(S) ==
    { ks \in [1..Cardinality(S) -> S] :
        /\ \A i, j \in 1..Cardinality(S) : i # j => ks[i] # ks[j]
        /\ \A i \in 1..(Cardinality(S) - 1) :
              PathStrLen(ks[i]) >= PathStrLen(ks[i + 1]) }

RECURSIVE SortByName(_)
\* entries.sort_by(name cmp): stable insertion into the sorted prefix.
SortByName(es) ==
    IF Len(es) <= 1 THEN es
    ELSE LET init == SortByName(SubSeq(es, 1, Len(es) - 1))
             x == es[Len(es)]
             before == SelectSeq(init, LAMBDA e : NameLe(BoTName(e), BoTName(x)))
             after == SelectSeq(init, LAMBDA e : ~NameLe(BoTName(e), BoTName(x)))
         IN  before \o <<x>> \o after

\* IndexEntry.mode_perms.to_string()
PermsStr(perms) ==
    CASE perms = 420 -> "420"      \* 0o644
      [] perms = 493 -> "493"      \* 0o755

\* make_tree_entries
make_tree_entries(es) ==
    [i \in 1..Len(es) |->
        IF es[i][1] = "Blob"
        THEN [type_ |-> "Blob", id |-> es[i][2].sha,
              mode |-> PermsStr(es[i][2].mode_perms),
              name |-> FileName(es[i][2].name)]
        ELSE [type_ |-> "Tree", id |-> es[i][2],
              mode |-> es[i][4], name |-> FileName(es[i][3])]]

\* IdentityMissing with the user.email check left out.
IdentityMissing_NameOnly(cfg) == cfg.name = NoneV

\* The two ok_or_else at the top of do_commit.
IdentityMissing(cfg) == cfg.name = NoneV \/ cfg.email = NoneV

\* root_commit: Head resolved through the Refs table.
ResolveHead(h, rf) ==
    IF h[1] = "Branch" THEN Ref_read_from_conn_with_name(rf, h[2])
    ELSE IF h[1] = "Commit" THEN Some(h[2])
    ELSE NoneV

\* ParentIds that never records a parent.
ParentIds_Never(root_commit) == <<>>

\* parent_ids of the new commit
ParentIds(root_commit) ==
    IF IsSome(root_commit) THEN <<Unwrap(root_commit)>> ELSE <<>>

\* trees.get(&repo_root)
RootTree(tm) == IF Root \in DOMAIN tm THEN Some(tm[Root]) ELSE NoneV

\* The history record of a do_commit that starts in the current state: the
\* store and the identity it started from, the directories whose tree was
\* persisted so far (in order, and with the tree id), the commit id.
Started(op, outcome) ==
    [op |-> op, outcome |-> outcome, pre |-> Store, config |-> config,
     order |-> <<>>, built |-> EmptyFn, commit_id |-> NoneV]

\* The history record after any other operation.
Other == [op |-> "other", outcome |-> "ok", pre |-> NoneV, config |-> NoneV,
          order |-> <<>>, built |-> EmptyFn, commit_id |-> NoneV]

Finished(outcome) ==
    /\ pc' = "idle"
    /\ last' = [last EXCEPT !.outcome = outcome]
    /\ NoLocals

(***************************************************************************)
(* Init: the repository right after do_init with a default branch.         *)
(***************************************************************************)
InitStore ==
    /\ config = [name |-> NoneV, email |-> NoneV]
    /\ index = <<>>
    /\ blobs = EmptyBag
    /\ trees = EmptyFn
    /\ commits = EmptyFn
    /\ refs = EmptyFn
    /\ head = HeadBranch("refs/heads/main")
    /\ pc = "idle"
    /\ directory_entries = EmptyFn
    /\ keys = <<>>
    /\ tree_map = EmptyFn
    /\ cur = [message |-> "", commit_id |-> NoneV]
    /\ last = Other
    /\ nops = 0
    \* repo::db: the tables right after create_table
    /\ db_blobs = EmptyFn
    /\ db_trees = EmptyFn
    /\ db_commits = EmptyFn
    /\ db_refs = EmptyFn
    /\ db_head = <<>>
    /\ db_index = <<>>
    /\ db_digest = EmptyFn
    /\ db_last = <<"none">>
    /\ db_n = 0

\* An empty working tree without .gitignore files; nothing staged by hand.
InitWorkTree ==
    /\ files = EmptyFn
    /\ rules = EmptyFn
    /\ st = <<"none">>
    /\ st_n = 0

\* No function applied.
Init ==
    /\ InitStore
    /\ InitWorkTree
    /\ fn_op = "none"
    /\ fn_args = <<>>
    /\ fn_out = <<>>

\* The paths that have an entry in the index.
StagedPaths(idx) == { idx[i].name : i \in 1..Len(idx) }

(***************************************************************************)
(* do_config: set user.name / user.email in the local config.              *)
(***************************************************************************)
do_config ==
    /\ pc = "idle"
    /\ \E k \in {"name", "email"} :
       \E v \in (IF k = "name" THEN UserNames ELSE UserEmails) :
          /\ config[k] # Some(v)
          /\ config' = [config EXCEPT ![k] = Some(v)]
    /\ last' = Other
    /\ UNCHANGED <<index, blobs, trees, commits, refs, head, pc,
                   directory_entries, keys, tree_map, cur, nops>>
    /\ UNCHANGED nonCmdVars

(***************************************************************************)
(* do_hash_object -w: the blob of a file is persisted.                     *)
(***************************************************************************)
do_hash_object ==
    /\ pc = "idle"
    /\ BagCardinality(blobs) < MaxBlobRows
    /\ \E data \in Contents :
          blobs' = Blob_persist(blobs, Blob_hash(data), data)
    /\ last' = Other
    /\ UNCHANGED <<config, index, trees, commits, refs, head, pc,
                   directory_entries, keys, tree_map, cur, nops>>
    /\ UNCHANGED nonCmdVars

(***************************************************************************)
(* do_add: the file's blob is persisted, the entry of the path is replaced *)
(* in the index and the index is persisted.                                *)
(***************************************************************************)
IndexReplace_Push(idx, entry) == Append(idx, entry)

IndexReplace(idx, entry) ==
    Append(SelectSeq(idx, LAMBDA e : e.name # entry.name), entry)

do_add_in(paths) ==
    /\ pc = "idle"
    /\ BagCardinality(blobs) < MaxBlobRows
    /\ \E path \in paths, data \in Contents :
          LET blob_id == Blob_hash(data)
              entry == [name |-> path, sha |-> blob_id, mode_perms |-> 420]
          IN  /\ blobs' = Blob_persist(blobs, blob_id, data)
              /\ index' = IndexReplace(index, entry)
    /\ last' = Other
    /\ UNCHANGED <<config, trees, commits, refs, head, pc,
                   directory_entries, keys, tree_map, cur, nops>>
    /\ UNCHANGED nonCmdVars

\* do_add of a path of the repository
do_add == do_add_in(RepoPaths)

(***************************************************************************)
(* do_rm of a staged path: its entries leave the index, the index is       *)
(* persisted; no object is touched.                                        *)
(***************************************************************************)
do_rm_staged ==
    /\ pc = "idle"
    /\ \E path \in StagedPaths(index) :
          index' = SelectSeq(index, LAMBDA e : e.name # path)
    /\ last' = Other
    /\ UNCHANGED <<config, blobs, trees, commits, refs, head, pc,
                   directory_entries, keys, tree_map, cur, nops>>
    /\ UNCHANGED nonCmdVars

(***************************************************************************)
(* do_init: the repository directory is removed and created again, the     *)
(* tables are created empty and Head is set to the default branch.  When   *)
(* init.defaultBranch is not configured the expect() in initialize_head    *)
(* stops the process after the tables were created: Head has no row.       *)
(***************************************************************************)
do_init ==
    /\ pc = "idle"
    /\ \E default_branch \in {Some(b) : b \in BranchNames} \cup {NoneV} :
          /\ head' = IF IsSome(default_branch)
                     THEN Head_persist(NoHead, HeadBranch(Unwrap(default_branch)))
                     ELSE NoHead
          /\ last' = Other
    /\ index' = <<>>
    /\ blobs' = EmptyBag
    /\ trees' = EmptyFn
    /\ commits' = EmptyFn
    /\ refs' = EmptyFn
    \* user.name / user.email survive when they come from the global or
    \* system file and are lost when they were in .gitqlite/config
    /\ config' \in {config, [name |-> NoneV, email |-> NoneV]}
    /\ UNCHANGED <<pc, directory_entries, keys, tree_map, cur, nops>>
    /\ UNCHANGED nonCmdVars

(***************************************************************************)
(* Callers of Ref::persist_or_update and Head::persist other than          *)
(* do_commit: a branch is created at, or Head is moved to, a commit read   *)
(* from the store, or Head is moved to a branch.                           *)
(***************************************************************************)
Ref_persist_call ==
    /\ pc = "idle"
    /\ \E name \in BranchNames, c \in DOMAIN commits :
          /\ Ref_read_from_conn_with_name(refs, name) # Some(c)
          /\ refs' = Ref_persist_or_update(refs, name, c)
    /\ last' = Other
    /\ UNCHANGED <<config, index, blobs, trees, commits, head, pc,
                   directory_entries, keys, tree_map, cur, nops>>
    /\ UNCHANGED nonCmdVars

Head_persist_call ==
    /\ pc = "idle"
    /\ \E h \in {HeadBranch(b) : b \in BranchNames}
                \cup {HeadCommit(c) : c \in DOMAIN commits} :
          /\ h # head
          /\ head' = Head_persist(head, h)
    /\ last' = Other
    /\ UNCHANGED <<config, index, blobs, trees, commits, refs, pc,
                   directory_entries, keys, tree_map, cur, nops>>
    /\ UNCHANGED nonCmdVars

(***************************************************************************)
(* do_commit, statement by statement.                                      *)
(***************************************************************************)
\* Lines 40-69: identity, index, grouping, ordering of the directories.
CommitBegin ==
    /\ pc = "idle"
    /\ nops < MaxCommitOps
    /\ nops' = nops + 1
    /\ IF IdentityMissing(config)
       THEN /\ last' = Started("commit", "err")
            /\ UNCHANGED <<pc, directory_entries, keys, tree_map, cur>>
       ELSE /\ \E message \in Messages :
                  cur' = [message |-> message, commit_id |-> NoneV]
            /\ directory_entries' = GroupEntries(index)
            /\ keys' \in SortedKeys(DOMAIN GroupEntries(index))
            /\ tree_map' = EmptyFn
            /\ pc' = "trees"
            /\ last' = Started("commit", "running")
    /\ UNCHANGED <<config, index, blobs, trees, commits, refs, head>>
    /\ UNCHANGED nonCmdVars

\* Lines 71-100: one iteration of the loop over the directories.
CommitTree ==
    /\ pc = "trees"
    /\ keys # <<>>
    /\ LET key == Head(keys)
           entries == SortByName(directory_entries[key])
           tree_entries == make_tree_entries(entries)
           tree_id == Tree_hash(tree_entries)
           sorted == [directory_entries EXCEPT ![key] = entries]
       IN  /\ trees' = Tree_persist(trees, tree_id, tree_entries)
           /\ IF key = Root
              THEN /\ directory_entries' = sorted
                   /\ tree_map' = [d \in DOMAIN tree_map \cup {key} |->
                                      IF d = key THEN tree_id ELSE tree_map[d]]
                   /\ keys' = Tail(keys)
                   /\ last' = [last EXCEPT !.order = Append(@, key),
                                           !.built = tree_map']
                   /\ UNCHANGED <<pc, cur>>
              ELSE IF Parent(key) \notin DOMAIN directory_entries
              THEN \* directory_entries.get_mut(parent).unwrap() on None
                   /\ pc' = "idle"
                   /\ last' = [last EXCEPT !.outcome = "panic",
                                           !.order = Append(@, key)]
                   /\ NoLocals
              ELSE /\ directory_entries' =
                          [sorted EXCEPT ![Parent(key)] =
                              Append(@, TreeOf(tree_id, key, "040000"))]
                   /\ tree_map' = [d \in DOMAIN tree_map \cup {key} |->
                                      IF d = key THEN tree_id ELSE tree_map[d]]
                   /\ keys' = Tail(keys)
                   /\ last' = [last EXCEPT !.order = Append(@, key),
                                           !.built = tree_map']
                   /\ UNCHANGED <<pc, cur>>
    /\ UNCHANGED <<config, index, blobs, commits, refs, head, nops>>
    /\ UNCHANGED nonCmdVars

\* Lines 102-129: the root tree, Head, the parents, the commit row.
CommitCommit ==
    /\ pc = "trees"
    /\ keys = <<>>
    /\ IF RootTree(tree_map) = NoneV
       THEN \* trees.get(&repo_root).unwrap() on None
            /\ Finished("panic")
            /\ UNCHANGED commits
       ELSE IF head = NoHead
       THEN \* Head::read_from_conn finds no row
            /\ Finished("err")
            /\ UNCHANGED commits
       ELSE LET root_commit == ResolveHead(head, refs)
                commit == Commit_new(Unwrap(RootTree(tree_map)),
                                     ParentIds(root_commit),
                                     Unwrap(config.name), Unwrap(config.email),
                                     Unwrap(config.name), Unwrap(config.email),
                                     cur.message)
                commit_id == Commit_hash(commit)
            IN  /\ commits' = Commit_persist(commits, commit_id, commit)
                /\ cur' = [cur EXCEPT !.commit_id = Some(commit_id)]
                /\ last' = [last EXCEPT !.commit_id = Some(commit_id)]
                /\ pc' = "ref"
                /\ UNCHANGED <<directory_entries, keys, tree_map>>
    /\ UNCHANGED <<config, index, blobs, trees, refs, head, nops>>
    /\ UNCHANGED nonCmdVars

\* Lines 131-141: the Ref of the branch, or the detached Head, is moved.
CommitUpdateRef ==
    /\ pc = "ref"
    /\ IF head[1] = "Branch"
       THEN /\ refs' = Ref_persist_or_update(refs, head[2], Unwrap(cur.commit_id))
            /\ UNCHANGED head
       ELSE /\ head' = Head_persist(head, HeadCommit(Unwrap(cur.commit_id)))
            /\ UNCHANGED refs
    /\ Finished("ok")
    /\ UNCHANGED <<config, index, blobs, trees, commits, nops>>
    /\ UNCHANGED nonCmdVars

\* The process stops between two statements of do_commit.
Crash ==
    /\ pc \in {"trees", "ref"}
    /\ Finished("crash")
    /\ UNCHANGED <<config, index, blobs, trees, commits, refs, head, nops>>
    /\ UNCHANGED nonCmdVars

Next ==
    \/ do_init
    \/ do_config
    \/ do_hash_object
    \/ do_add
    \/ Ref_persist_call
    \/ Head_persist_call
    \/ CommitBegin
    \/ CommitTree
    \/ CommitCommit
    \/ CommitUpdateRef
    \/ Crash

vars == <<cmdVars, dbVars, fnVars, wtVars>>

Spec == Init /\ [][Next]_vars

\* The commands that write the index and the objects, on the paths of which
\* one changed from a file to a directory; rm included.
NextBuild ==
    \/ do_init
    \/ do_config
    \/ do_hash_object
    \/ do_add_in(BuildPaths)
    \/ do_rm_staged
    \/ CommitBegin
    \/ CommitTree
    \/ CommitCommit
    \/ CommitUpdateRef

SpecBuild == Init /\ [][NextBuild]_vars

(***************************************************************************)
(* Commit construction: what is checked.                                   *)
(***************************************************************************)
\* Every directory that is an ancestor of a staged path, and the root.
AncestorDirs(idx) ==
    UNION { { SubSeq(p, 1, k) : k \in 0..(Len(p) - 1) } : p \in StagedPaths(idx) }
        \cup { Root }

\* The entries the tree of directory d should have, given the index and the
\* tree ids of the child directories.
ExpectedEntries(idx, built, d) ==
    { [type_ |-> "Blob", id |-> idx[i].sha, mode |-> PermsStr(idx[i].mode_perms),
       name |-> FileName(idx[i].name)] :
         i \in { j \in 1..Len(idx) : Parent(idx[j].name) = d } }
    \cup
    { [type_ |-> "Tree", id |-> built[c], mode |-> "040000", name |-> FileName(c)] :
         c \in { a \in AncestorDirs(idx) \cap DOMAIN built : a # Root /\ Parent(a) = d } }

StoredEntries(tree_id) ==
    { decode_entries(trees[tree_id])[i] : i \in 1..Len(trees[tree_id]) }

PositionIn(seq, x) == CHOOSE i \in 1..Len(seq) : seq[i] = x

\* A do_commit that ran to its end (it returned or panicked; it was not
\* stopped from outside), with the identity configured and a Head row.
CommitRan ==
    /\ last.op = "commit"
    /\ last.outcome \in {"ok", "err", "panic"}
    /\ last.config.name # NoneV
    /\ last.config.email # NoneV
    /\ last.pre.head # NoHead

\* C1: for any (non-empty) staging index, commit construction persists one
\* tree for every ancestor directory of a staged path, the root included and
\* also the directories that hold no staged file directly; each tree has one
\* blob entry per staged file directly in the directory and one tree entry per
\* child directory; every child's tree is persisted before its parent's.
C1_TreePerAncestorDirectory ==
    (CommitRan /\ last.pre.index # <<>>) =>
        /\ last.outcome = "ok"
        /\ \A d \in AncestorDirs(last.pre.index) :
              /\ d \in DOMAIN last.built
              /\ last.built[d] \in DOMAIN trees
              /\ StoredEntries(last.built[d]) =
                    ExpectedEntries(last.pre.index, last.built, d)
              /\ Len(trees[last.built[d]]) =
                    Cardinality(ExpectedEntries(last.pre.index, last.built, d))
              /\ d # Root =>
                    /\ Parent(d) \in DOMAIN last.built
                    /\ PositionIn(last.order, d) < PositionIn(last.order, Parent(d))

\* C2: a commit run with an empty staging index and a configured identity
\* succeeds, persisting the empty root tree and a commit of that tree.
C2_EmptyIndexCommits ==
    (CommitRan /\ last.pre.index = <<>>) =>
        /\ last.outcome = "ok"
        /\ Tree_hash(<<>>) \in DOMAIN trees
        /\ IsSome(last.commit_id)
        /\ Unwrap(last.commit_id) \in DOMAIN commits
        /\ commits[Unwrap(last.commit_id)].tree_id = Tree_hash(<<>>)

\* C3: the commit a commit operation creates has the id of the tree built for
\* the repository root as tree_id (the tree holding the files staged directly
\* in the root), and its parents are exactly [c] when Head resolved to c just
\* before the operation and none when Head was a branch without a Ref.
C3_CommitTreeAndParents ==
    (last.op = "commit" /\ IsSome(last.commit_id)) =>
        LET id == Unwrap(last.commit_id)
            before == ResolveHead(last.pre.head, last.pre.refs)
        IN  /\ id \in DOMAIN commits
            /\ Root \in DOMAIN last.built
            /\ commits[id].tree_id = last.built[Root]
            /\ commits[id].tree_id \in DOMAIN trees
            /\ { e \in StoredEntries(commits[id].tree_id) : e.type_ = "Blob" } =
                  { e \in ExpectedEntries(last.pre.index, last.built, Root) :
                      e.type_ = "Blob" }
            /\ commits[id].parent_ids =
                  (IF before = NoneV THEN <<>> ELSE <<Unwrap(before)>>)

C3_Witness ==
    /\ last.op = "commit"
    /\ last.outcome = "ok"
    /\ IsSome(ResolveHead(last.pre.head, last.pre.refs))
    /\ Len(commits[Unwrap(last.commit_id)].parent_ids) = 1

\* C4: after a successful commit producing n: when Head was Branch(name),
\* Ref[name] = n, Head is still Branch(name) and every other Ref is as before;
\* when Head was detached, Head = Commit(n) and the Refs are as before.
C4_RefHeadFrame ==
    (last.op = "commit" /\ last.outcome = "ok") =>
        LET n == Unwrap(last.commit_id)
            h == last.pre.head
        IN  IF h[1] = "Branch"
            THEN /\ Ref_read_from_conn_with_name(refs, h[2]) = Some(n)
                 /\ head = h
                 /\ \A o \in BranchNames \ {h[2]} :
                       Ref_read_from_conn_with_name(refs, o) =
                          Ref_read_from_conn_with_name(last.pre.refs, o)
                 /\ DOMAIN refs = DOMAIN last.pre.refs \cup {h[2]}
            ELSE /\ head = HeadCommit(n)
                 /\ refs = last.pre.refs

C4_Witness ==
    /\ last.op = "commit"
    /\ last.outcome = "ok"
    /\ last.pre.head[1] = "Branch"
    /\ \E o \in DOMAIN last.pre.refs : o # last.pre.head[2]

\* C5: when user.name or user.email is not configured the commit operation
\* fails and nothing was written: no tree, commit, Ref or Head.
C5_MissingIdentityNoWrite ==
    (last.op = "commit" /\ (last.config.name = NoneV \/ last.config.email = NoneV)) =>
        /\ last.outcome = "err"
        /\ pc = "idle"
        /\ Store = last.pre

C5_Witness ==
    /\ last.op = "commit"
    /\ last.config.name # NoneV
    /\ last.config.email = NoneV
    /\ index # <<>>
    /\ last.outcome = "err"

BlobPresent(id) == \E r \in BagToSet(blobs) : r[1] = id

RECURSIVE TreeClosed(_)
\* The tree and everything reachable from it is in the store.
TreeClosed(id) ==
    /\ id \in DOMAIN trees
    /\ \A e \in StoredEntries(id) :
          IF e.type_ = "Blob" THEN BlobPresent(e.id) ELSE TreeClosed(e.id)

\* C6: in every reachable state, the points between two statements of a
\* commit operation included, Head resolves to nothing (a branch without a
\* Ref row, or no Head row) or to a commit that is in the store with its root
\* tree and every tree and blob reachable from it.
C6_HeadResolvesToDurableCommit ==
    LET r == ResolveHead(head, refs)
    IN  r = NoneV \/
        /\ Unwrap(r) \in DOMAIN commits
        /\ TreeClosed(commits[Unwrap(r)].tree_id)

C6_Witness ==
    /\ pc = "ref"
    /\ IsSome(ResolveHead(head, refs))
    /\ Unwrap(cur.commit_id) # Unwrap(ResolveHead(head, refs))
    /\ trees[commits[Unwrap(cur.commit_id)].tree_id] # <<>>

\* C7: the store writes of one commit operation are one atomic transaction:
\* when the process stops before the operation completes, the store holds
\* none of the trees or the commit written by that operation.
C7_CommitIsAtomic ==
    (last.op = "commit" /\ last.outcome \in {"crash", "panic", "err"}) =>
        /\ trees = last.pre.trees
        /\ commits = last.pre.commits

\* C8: persisting an object whose id is already in the store leaves exactly
\* one stored row for that id.
C8_OneRowPerId ==
    /\ \A r \in BagToSet(blobs) : CopiesIn(r, blobs) = 1
    /\ \A r1, r2 \in BagToSet(blobs) : r1[1] = r2[1] => r1 = r2

(***************************************************************************)
(* The repo::db layer: Object::persist and Object::read_by_id with their   *)
(* encodings.  A Sha1Id is IdWidth bytes; it is bound to SQL as the bytes  *)
(* and written to JSON as its hex string.                                  *)
(***************************************************************************)
MaxDbPersists == 3     \* persist calls in one behaviour

IdWidth == 20
ChunkSize == 20

Ok(v) == <<"Ok", v>>
Err(why) == <<"Err", why>>
IsOk(r) == r[1] = "Ok"

Id(b) == [i \in 1..IdWidth |-> b]
MixedId == [i \in 1..IdWidth |-> IF i % 2 = 1 THEN 10 ELSE 255]
DbIds == { Id(1), MixedId }

\* HexOfByte that does not pad to two digits ("{:x}").
HexOfByte_NoPad(b) == IF b < 16 THEN <<b % 16>> ELSE <<b \div 16, b % 16>>

\* format!("{:02x}", b): two hex digits (as numbers 0..15)
HexOfByte(b) == <<b \div 16, b % 16>>

RECURSIVE Flatten(_)
\* concatenation of a list of byte strings
Flatten(ss) == IF ss = <<>> THEN <<>> ELSE Head(ss) \o Flatten(Tail(ss))

\* Display for Sha1Id
Sha1Id_to_string(id) == Flatten([i \in 1..Len(id) |-> HexOfByte(id[i])])

\* TryFrom<&str> for Sha1Id
Sha1Id_try_from(h) ==
    IF Len(h) # 2 * IdWidth THEN Err("Invalid sha1 string")
    ELSE Ok([i \in 1..IdWidth |-> h[2 * i - 1] * 16 + h[2 * i]])

RECURSIVE Chunks(_, _)
\* slice::chunks(n)
Chunks(bytes, n) ==
    IF bytes = <<>> THEN <<>>
    ELSE IF Len(bytes) <= n THEN <<bytes>>
    ELSE <<SubSeq(bytes, 1, n)>> \o Chunks(SubSeq(bytes, n + 1, Len(bytes)), n)

\* Insertion keeping the row of a key that is already present (OR IGNORE on
\* a PRIMARY KEY).
InsertOrIgnore(tbl, key, row) ==
    IF key \in DOMAIN tbl THEN tbl
    ELSE [k \in DOMAIN tbl \cup {key} |-> IF k = key THEN row ELSE tbl[k]]

\* Insertion replacing the row of a key (OR REPLACE on a PRIMARY KEY).
InsertOrReplace(tbl, key, row) ==
    [k \in DOMAIN tbl \cup {key} |-> IF k = key THEN row ELSE tbl[k]]

DbBlob_persist_Only(tbl, x) == (x.blob_id :> x.data)

\* Object for Blob<Sha1Id>
DbBlob_persist(tbl, x) == InsertOrIgnore(tbl, x.blob_id, x.data)
DbBlob_read_by_id(tbl, id) ==
    IF id \in DOMAIN tbl THEN Ok(Some([blob_id |-> id, data |-> tbl[id]]))
    ELSE Ok(NoneV)

\* The keys of a BTreeMap in order.
KeysSorted(S) ==
    CHOOSE ks \in [1..Cardinality(S) -> S] :
        \A i, j \in 1..Cardinality(S) : i < j => NameOrd(ks[i]) < NameOrd(ks[j])

\* serde_json of a TreeEntry / of the entries map of a Tree
JsonOfTreeEntry(e) ==
    [object_type |-> e.object_type, file_type |-> e.file_type,
     id |-> Sha1Id_to_string(e.id), perms |-> e.perms]
JsonOfEntries(entries) ==
    [i \in 1..Cardinality(DOMAIN entries) |->
        <<KeysSorted(DOMAIN entries)[i],
          JsonOfTreeEntry(entries[KeysSorted(DOMAIN entries)[i]])>>]

\* serde_json::from_str of the entries map
EntriesOfJson(js) ==
    IF \E i \in 1..Len(js) : ~IsOk(Sha1Id_try_from(js[i][2].id))
    THEN Err("Failed to deserialize tree")
    ELSE Ok([n \in { js[i][1] : i \in 1..Len(js) } |->
            LET j == CHOOSE i \in 1..Len(js) : js[i][1] = n
            IN  [object_type |-> js[j][2].object_type,
                 file_type |-> js[j][2].file_type,
                 id |-> Sha1Id_try_from(js[j][2].id)[2],
                 perms |-> js[j][2].perms]])

\* Object for Tree<Sha1Id>
DbTree_persist(tbl, x) == InsertOrIgnore(tbl, x.tree_id, JsonOfEntries(x.entries))
DbTree_read_by_id(tbl, id) ==
    IF id \notin DOMAIN tbl THEN Ok(NoneV)
    ELSE IF ~IsOk(EntriesOfJson(tbl[id])) THEN EntriesOfJson(tbl[id])
    ELSE Ok(Some([tree_id |-> id, entries |-> EntriesOfJson(tbl[id])[2]]))

\* Object for Commit<Sha1Id>: parent_ids is the concatenation of the ids
DbCommit_persist(tbl, x) ==
    InsertOrIgnore(tbl, x.commit_id,
        [tree_id |-> x.tree_id, parent_ids |-> Flatten(x.parent_ids),
         author_name |-> x.author_name, author_email |-> x.author_email,
         committer_name |-> x.committer_name,
         committer_email |-> x.committer_email, message |-> x.message])
DbCommit_read_by_id(tbl, id) ==
    IF id \notin DOMAIN tbl THEN Ok(NoneV)
    ELSE LET row == tbl[id]
             chunks == Chunks(row.parent_ids, ChunkSize)
         IN  IF \E i \in 1..Len(chunks) : Len(chunks[i]) # IdWidth
             THEN Err("panic: try_into")
             ELSE Ok(Some([commit_id |-> id, tree_id |-> row.tree_id,
                           parent_ids |-> chunks,
                           author_name |-> row.author_name,
                           author_email |-> row.author_email,
                           committer_name |-> row.committer_name,
                           committer_email |-> row.committer_email,
                           message |-> row.message]))

\* Ref::persist / Ref::read_from_with_name
DbRef_persist_Ignore(tbl, x) == InsertOrIgnore(tbl, x.name, x.commit_id)

DbRef_persist(tbl, x) == InsertOrReplace(tbl, x.name, x.commit_id)
DbRef_read_from_with_name(tbl, name) ==
    IF name \in DOMAIN tbl THEN Ok(Some([name |-> name, commit_id |-> tbl[name]]))
    ELSE Ok(NoneV)

\* serde_json of Head
JsonOfHead(h) ==
    IF h[1] = "Branch" THEN h ELSE <<"Commit", Sha1Id_to_string(h[2])>>
HeadOfJson(js) ==
    IF js[1] = "Branch" THEN Ok(Some(js))
    ELSE IF IsOk(Sha1Id_try_from(js[2]))
    THEN Ok(Some(<<"Commit", Sha1Id_try_from(js[2])[2]>>))
    ELSE Err("Invalid head string")

\* Object for Head: DELETE, then INSERT of the JSON string (rows: a list)
DbHead_persist_Append(rows, x) == Append(rows, JsonOfHead(x))

DbHead_persist(rows, x) == <<JsonOfHead(x)>>
\* query_row without .optional(): no row is an error
DbHead_read_by_id(rows) ==
    IF rows = <<>> THEN Err("QueryReturnedNoRows") ELSE HeadOfJson(rows[1])

\* serde_json of an IndexEntry / of the Index
JsonOfIndexEntry(e) == [e EXCEPT !.sha = Sha1Id_to_string(e.sha)]
JsonOfIndex(ix) ==
    [i \in 1..Cardinality(DOMAIN ix) |->
        <<KeysSorted(DOMAIN ix)[i],
          [k \in 1..Len(ix[KeysSorted(DOMAIN ix)[i]]) |->
              JsonOfIndexEntry(ix[KeysSorted(DOMAIN ix)[i]][k])]>>]
IndexOfJson(js) ==
    IF \E i \in 1..Len(js) : \E k \in 1..Len(js[i][2]) :
          ~IsOk(Sha1Id_try_from(js[i][2][k].sha))
    THEN Err("Invalid index string")
    ELSE Ok([n \in { js[i][1] : i \in 1..Len(js) } |->
            LET j == CHOOSE i \in 1..Len(js) : js[i][1] = n
            IN  [k \in 1..Len(js[j][2]) |->
                    [js[j][2][k] EXCEPT !.sha = Sha1Id_try_from(js[j][2][k].sha)[2]]]])

\* Object for Index: DELETE, then INSERT of the JSON string
DbIndex_persist(rows, x) == <<JsonOfIndex(x)>>
\* query_row(...).optional()
DbIndex_read_by_id(rows) ==
    IF rows = <<>> THEN Ok(NoneV)
    ELSE IF ~IsOk(IndexOfJson(rows[1])) THEN IndexOfJson(rows[1])
    ELSE Ok(Some(IndexOfJson(rows[1])[2]))

(***************************************************************************)
(* The objects handed to persist.  The id of a blob, tree or commit is the *)
(* SHA-1 of its content (with_id): one content has one id, and two         *)
(* contents have different ids.                                            *)
(***************************************************************************)
DbBlobData == { <<>>, <<0, 255>> }
DbTreeEntries ==
    { EmptyFn,
      [n \in {"f.txt", "dir"} |->
          IF n = "f.txt"
          THEN [object_type |-> "Blob", file_type |-> "Regular",
                id |-> MixedId, perms |-> 420]
          ELSE [object_type |-> "Tree", file_type |-> "Directory",
                id |-> Id(1), perms |-> 0]] }
DbCommitBodies ==
    { [tree_id |-> Id(1), parent_ids |-> ps,
       author_name |-> "alice", author_email |-> "a@x",
       committer_name |-> "bob", committer_email |-> "b@x", message |-> "m"]
      : ps \in { <<>>, <<Id(1), MixedId>>, <<MixedId, Id(1)>> } }
DbHeads == { <<"Branch", "refs/heads/main">> } \cup { <<"Commit", id>> : id \in DbIds }
DbIndexEntry(sha, stage) ==
    [ctime |-> 1, mtime |-> 2, dev |-> 3, ino |-> 4, type_ |-> "Regular",
     perms |-> 420, uid |-> 5, gid |-> 6, fsize |-> 7, sha |-> sha,
     flag_assume_valid |-> FALSE, flag_stage |-> stage]
DbIndexes ==
    { EmptyFn,
      [n \in {"f.txt", "root.txt"} |->
          IF n = "f.txt" THEN <<DbIndexEntry(Id(1), "Normal")>>
          ELSE <<DbIndexEntry(MixedId, "Ours"), DbIndexEntry(Id(1), "Theirs")>>] }

\* with_id: id is the hash of content, given the hashes taken so far
Hashed(kind, id, content) ==
    /\ <<kind, id>> \in DOMAIN db_digest => db_digest[<<kind, id>>] = content
    /\ \A k \in DOMAIN db_digest :
          (k[1] = kind /\ k[2] # id) => db_digest[k] # content
RecordHash(kind, id, content) ==
    [k \in DOMAIN db_digest \cup {<<kind, id>>} |->
        IF k = <<kind, id>> THEN content ELSE db_digest[k]]

DbPersistBlob ==
    /\ db_n < MaxDbPersists
    /\ \E data \in DbBlobData, id \in DbIds :
          /\ Hashed("blob", id, data)
          /\ db_digest' = RecordHash("blob", id, data)
          /\ db_blobs' = DbBlob_persist(db_blobs, [blob_id |-> id, data |-> data])
          /\ db_last' = <<"blob", [blob_id |-> id, data |-> data]>>
    /\ db_n' = db_n + 1
    /\ UNCHANGED <<db_trees, db_commits, db_refs, db_head, db_index>>
    /\ UNCHANGED nonDbVars

DbPersistTree ==
    /\ db_n < MaxDbPersists
    /\ \E entries \in DbTreeEntries, id \in DbIds :
          /\ Hashed("tree", id, entries)
          /\ db_digest' = RecordHash("tree", id, entries)
          /\ db_trees' = DbTree_persist(db_trees, [tree_id |-> id, entries |-> entries])
          /\ db_last' = <<"tree", [tree_id |-> id, entries |-> entries]>>
    /\ db_n' = db_n + 1
    /\ UNCHANGED <<db_blobs, db_commits, db_refs, db_head, db_index>>
    /\ UNCHANGED nonDbVars

DbCommitWithId(id, c) ==
    [commit_id |-> id, tree_id |-> c.tree_id, parent_ids |-> c.parent_ids,
     author_name |-> c.author_name, author_email |-> c.author_email,
     committer_name |-> c.committer_name,
     committer_email |-> c.committer_email, message |-> c.message]

DbPersistCommit ==
    /\ db_n < MaxDbPersists
    /\ \E c \in DbCommitBodies, id \in DbIds :
          /\ Hashed("commit", id, c)
          /\ db_digest' = RecordHash("commit", id, c)
          /\ db_commits' = DbCommit_persist(db_commits, DbCommitWithId(id, c))
          /\ db_last' = <<"commit", DbCommitWithId(id, c)>>
    /\ db_n' = db_n + 1
    /\ UNCHANGED <<db_blobs, db_trees, db_refs, db_head, db_index>>
    /\ UNCHANGED nonDbVars

DbPersistRef ==
    /\ db_n < MaxDbPersists
    /\ \E name \in BranchNames, id \in DbIds :
          /\ db_refs' = DbRef_persist(db_refs, [name |-> name, commit_id |-> id])
          /\ db_last' = <<"ref", [name |-> name, commit_id |-> id]>>
    /\ db_n' = db_n + 1
    /\ UNCHANGED <<db_blobs, db_trees, db_commits, db_head, db_index, db_digest>>
    /\ UNCHANGED nonDbVars

DbPersistHead ==
    /\ db_n < MaxDbPersists
    /\ \E h \in DbHeads :
          /\ db_head' = DbHead_persist(db_head, h)
          /\ db_last' = <<"head", h>>
    /\ db_n' = db_n + 1
    /\ UNCHANGED <<db_blobs, db_trees, db_commits, db_refs, db_index, db_digest>>
    /\ UNCHANGED nonDbVars

DbPersistIndex ==
    /\ db_n < MaxDbPersists
    /\ \E ix \in DbIndexes :
          /\ db_index' = DbIndex_persist(db_index, ix)
          /\ db_last' = <<"index", ix>>
    /\ db_n' = db_n + 1
    /\ UNCHANGED <<db_blobs, db_trees, db_commits, db_refs, db_head, db_digest>>
    /\ UNCHANGED nonDbVars

NextDb ==
    \/ DbPersistBlob
    \/ DbPersistTree
    \/ DbPersistCommit
    \/ DbPersistRef
    \/ DbPersistHead
    \/ DbPersistIndex

SpecDb == Init /\ [][NextDb]_vars

\* git::model Blob::read_from_conn_with_id: query_row_and_then without
\* .optional(); the result type has no Option.
Blob_read_from_conn_with_id(tbl, id) ==
    IF \E r \in BagToSet(tbl) : r[1] = id
    THEN Ok([blob_id |-> id,
             data |-> (CHOOSE r \in BagToSet(tbl) : r[1] = id)[2]])
    ELSE Err("QueryReturnedNoRows")

(***************************************************************************)
(* Claims about persist and read.                                          *)
(***************************************************************************)
\* C9: reading back the object that was persisted last, by its id (its name
\* for a Ref, the singleton for Head and Index), yields Some of an object
\* equal to it, for each of blob, tree, commit, ref, head and index.
C9_PersistReadRoundTrip ==
    /\ db_last[1] = "blob" =>
          DbBlob_read_by_id(db_blobs, db_last[2].blob_id) = Ok(Some(db_last[2]))
    /\ db_last[1] = "tree" =>
          DbTree_read_by_id(db_trees, db_last[2].tree_id) = Ok(Some(db_last[2]))
    /\ db_last[1] = "commit" =>
          DbCommit_read_by_id(db_commits, db_last[2].commit_id) = Ok(Some(db_last[2]))
    /\ db_last[1] = "ref" =>
          DbRef_read_from_with_name(db_refs, db_last[2].name) = Ok(Some(db_last[2]))
    /\ db_last[1] = "head" => DbHead_read_by_id(db_head) = Ok(Some(db_last[2]))
    /\ db_last[1] = "index" => DbIndex_read_by_id(db_index) = Ok(Some(db_last[2]))

\* A commit with two parents was persisted last, after a tree with entries
\* and a detached Head.
C9_Witness ==
    /\ db_last[1] = "commit"
    /\ Len(db_last[2].parent_ids) = 2
    /\ \E t \in DOMAIN db_trees : db_trees[t] # <<>>
    /\ db_head # <<>> /\ db_head[1][1] = "Commit"

\* C10: reading an id, a name or a singleton that is not stored returns
\* None, and no error.
C10_AbsentReadsNone ==
    /\ \A id \in DbIds :
          /\ id \notin DOMAIN db_blobs => DbBlob_read_by_id(db_blobs, id) = Ok(NoneV)
          /\ id \notin DOMAIN db_trees => DbTree_read_by_id(db_trees, id) = Ok(NoneV)
          /\ id \notin DOMAIN db_commits =>
                DbCommit_read_by_id(db_commits, id) = Ok(NoneV)
    /\ \A name \in BranchNames :
          name \notin DOMAIN db_refs =>
             DbRef_read_from_with_name(db_refs, name) = Ok(NoneV)
    /\ db_index = <<>> => DbIndex_read_by_id(db_index) = Ok(NoneV)
    /\ db_head = <<>> => DbHead_read_by_id(db_head) = Ok(NoneV)
    /\ \A data \in Contents :
          ~BlobPresent(Blob_hash(data)) =>
             Blob_read_from_conn_with_id(blobs, Blob_hash(data)) = Ok(NoneV)

(***************************************************************************)
(* Hashing of trees.  Text is a sequence of tokens, each token a fixed     *)
(* piece of text, and formatting is concatenation.                         *)
(***************************************************************************)
MaxEntries == 2        \* entries of one tree

NameA == <<"a">>
NameB == <<"b">>
\* a file name that holds a line break
NameLines == <<"a", "\n", "420", " ", "blob", " ", "H2", " ", "b">>

\* (type, mode) of a regular file, an executable file and a directory
TextKinds == { <<"Blob", "420">>, <<"Blob", "493">>, <<"Tree", "040000">> }
TextEntries ==
    { [type_ |-> k[1], mode |-> k[2], id |-> i, name |-> n] :
        k \in TextKinds, i \in {"H1", "H2"}, n \in {NameA, NameB} }
    \cup { [type_ |-> "Blob", mode |-> "420", id |-> "H1", name |-> NameLines] }

\* The entries of one directory, in any order: names are unique.
TextEntryLists ==
    { l \in UNION { [1..n -> TextEntries] : n \in 0..MaxEntries } :
        \A i, j \in 1..Len(l) : i # j => l[i].name # l[j].name }

\* Byte order of the tokens (str::cmp).
TokOrd(t) ==
    CASE t = "\n" -> 0
      [] t = " " -> 1
      [] t = "040000" -> 2
      [] t = "420" -> 3
      [] t = "493" -> 4
      [] t = "H1" -> 5
      [] t = "H2" -> 6
      [] t = "a" -> 7
      [] t = "b" -> 8
      [] t = "blob" -> 9
      [] t = "tree" -> 10

RECURSIVE StrLess(_, _)
\* str::cmp(s, t) == Less
StrLess(s, t) ==
    IF s = <<>> THEN t # <<>>
    ELSE IF t = <<>> THEN FALSE
    ELSE IF Head(s) = Head(t) THEN StrLess(Tail(s), Tail(t))
    ELSE TokOrd(Head(s)) < TokOrd(Head(t))

RECURSIVE SortEntries(_)
\* do_commit: entries.sort_by(name cmp), a stable sort
SortEntries(es) ==
    IF Len(es) <= 1 THEN es
    ELSE LET init == SortEntries(SubSeq(es, 1, Len(es) - 1))
             x == es[Len(es)]
             before == SelectSeq(init, LAMBDA e : ~StrLess(x.name, e.name))
             after == SelectSeq(init, LAMBDA e : StrLess(x.name, e.name))
         IN  before \o <<x>> \o after

\* write!("{} {} {} {}", mode, type_, id, name)
EntryText(e) ==
    <<e.mode, " ", TreeEntryTypeStr(e.type_), " ", e.id, " ">> \o e.name

RECURSIVE EncodeText(_)
\* Tree::encode_entries: the lines of the entries, joined by "\n"
EncodeText(es) ==
    IF es = <<>> THEN <<>>
    ELSE IF Len(es) = 1 THEN EntryText(es[1])
    ELSE EntryText(Head(es)) \o <<"\n">> \o EncodeText(Tail(es))

\* Hashable for git::model Tree, over the text
Tree_hash_text(es) == Sha1("tree", EncodeText(es))

\* do_commit: the entries of a directory are sorted, then hashed
BuildTree(es) == Tree_hash_text(SortEntries(es))

\* repo::db: the BTreeMap the entries are inserted into
EntryMap(es) ==
    [n \in { es[i].name : i \in 1..Len(es) } |->
        LET e == es[CHOOSE i \in 1..Len(es) : es[i].name = n]
        IN  [object_type |-> e.type_,
             file_type |-> IF e.type_ = "Tree" THEN "Directory" ELSE "Regular",
             id |-> e.id, perms |-> e.mode]]

\* The keys of the BTreeMap in order.
SortedNames(S) ==
    CHOOSE ks \in [1..Cardinality(S) -> S] :
        \A i, j \in 1..Cardinality(S) : i < j => StrLess(ks[i], ks[j])

\* Hashable for repo::db Tree<NoId>: serde_json of {tree_id, entries}; a
\* JSON string is escaped, so keys and values stay apart.
DbTree_hash(m) ==
    Sha1("tree",
         [tree_id |-> "null",
          entries |-> [i \in 1..Cardinality(DOMAIN m) |->
                          <<SortedNames(DOMAIN m)[i], m[SortedNames(DOMAIN m)[i]]>>]])

\* Two lists of entries are hashed, by do_commit and by repo::db.
HashTrees ==
    /\ fn_op = "none"
    /\ fn_args[1] = "tree"
    /\ fn_out' = <<BuildTree(fn_args[2]), BuildTree(fn_args[3]),
                   DbTree_hash(EntryMap(fn_args[2])),
                   DbTree_hash(EntryMap(fn_args[3]))>>
    /\ fn_op' = "tree"
    /\ UNCHANGED <<nonFnVars, fn_args>>

EntrySet(l) == { l[i] : i \in 1..Len(l) }

\* C11: the hash of a tree depends only on its set of entries: the same
\* entries in any order give the same id, and trees that differ in the
\* name, kind, id or mode of an entry give different ids.
C11_TreeHashOfEntrySet ==
    fn_op = "tree" =>
       /\ EntrySet(fn_args[2]) = EntrySet(fn_args[3]) =>
             fn_out[1] = fn_out[2] /\ fn_out[3] = fn_out[4]
       /\ EntrySet(fn_args[2]) # EntrySet(fn_args[3]) =>
             fn_out[1] # fn_out[2] /\ fn_out[3] # fn_out[4]

(***************************************************************************)
(* Hashing of commits.  Text is a sequence of bytes: 10 is "\n", 32 " ".   *)
(***************************************************************************)
MaxParents == 2        \* parents of one commit

ParentLists == UNION { [1..n -> DbIds] : n \in 0..MaxParents }
HashCommits ==
    [tree_id : {Id(1)}, parent_ids : ParentLists,
     author_name : {<<97>>, <<97, 32, 98>>},
     author_email : {<<99>>, <<98, 32, 99>>},
     committer_name : {<<97>>}, committer_email : {<<99>>},
     message : {<<>>, <<109>>}]

\* ParentsText that keeps only the number of parents.
ParentsText_Count(ps) == <<Len(ps)>>

\* for parent in &self.parent_ids: the 20 bytes of the id, then "\n"
ParentsText(ps) == Flatten([i \in 1..Len(ps) |-> ps[i] \o <<10>>])

\* Hashable for git::model Commit: the bytes given to sha.update, in order
CommitText(c) ==
    c.tree_id \o <<10>> \o ParentsText(c.parent_ids)
    \o c.author_name \o <<32>> \o c.author_email \o <<10>>
    \o c.committer_name \o <<32>> \o c.committer_email \o <<10, 10>>
    \o c.message \o <<10>>
Commit_hash_text(c) == Sha1("commit", CommitText(c))

\* Hashable for repo::db Commit<NoId>: serde_json of the commit; ids are
\* written as hex strings, parent_ids as an array, strings are escaped.
DbCommit_hash(c) ==
    Sha1("commit",
         [commit_id |-> "null", tree_id |-> Sha1Id_to_string(c.tree_id),
          parent_ids |-> [i \in 1..Len(c.parent_ids) |->
                             Sha1Id_to_string(c.parent_ids[i])],
          author_name |-> c.author_name, author_email |-> c.author_email,
          committer_name |-> c.committer_name,
          committer_email |-> c.committer_email, message |-> c.message])

\* Two commits are hashed, by git::model and by repo::db.
HashCommitPair ==
    /\ fn_op = "none"
    /\ fn_args[1] = "commit"
    /\ fn_out' = <<Commit_hash_text(fn_args[2]), Commit_hash_text(fn_args[3]),
                   DbCommit_hash(fn_args[2]), DbCommit_hash(fn_args[3])>>
    /\ fn_op' = "commit"
    /\ UNCHANGED <<nonFnVars, fn_args>>

\* ps and qs hold the same ids the same number of times
IsPermutation(ps, qs) ==
    /\ Len(ps) = Len(qs)
    /\ \A x \in DbIds :
          Cardinality({i \in 1..Len(ps) : ps[i] = x})
             = Cardinality({i \in 1..Len(qs) : qs[i] = x})

\* C12: two commits with identical fields hash to the same id, and two
\* commits that differ only in the order of their parents (a list of two or
\* more parents that are not all the same) hash to different ids.
C12_CommitHashParentOrder ==
    fn_op = "commit" =>
       /\ fn_args[2] = fn_args[3] =>
             fn_out[1] = fn_out[2] /\ fn_out[3] = fn_out[4]
       /\ ( /\ fn_args[3] = [fn_args[2] EXCEPT !.parent_ids = fn_args[3].parent_ids]
            /\ IsPermutation(fn_args[2].parent_ids, fn_args[3].parent_ids)
            /\ fn_args[2].parent_ids # fn_args[3].parent_ids )
          => fn_out[1] # fn_out[2] /\ fn_out[3] # fn_out[4]

\* The two commits hashed have the same two distinct parents, swapped.
C12_Witness ==
    /\ fn_op = "commit"
    /\ Len(fn_args[2].parent_ids) = 2
    /\ fn_args[2].parent_ids[1] # fn_args[2].parent_ids[2]
    /\ fn_args[3] = [fn_args[2] EXCEPT
                        !.parent_ids = <<fn_args[2].parent_ids[2],
                                         fn_args[2].parent_ids[1]>>]

NextHash ==
    \/ HashTrees
    \/ HashCommitPair

\* The arguments are drawn first; the function is then applied to them.
InitHash ==
    /\ InitStore
    /\ InitWorkTree
    /\ fn_op = "none"
    /\ fn_out = <<>>
    /\ fn_args \in { <<"tree", l1, l2>> : l1, l2 \in TextEntryLists }
                   \cup { <<"commit", c1, c2>> : c1, c2 \in HashCommits }

SpecHash == InitHash /\ [][NextHash]_vars

(***************************************************************************)
(* Staging and unstaging against a working tree (do_add, do_rm).  A path   *)
(* is the sequence of its components; the arguments are absolute.          *)
(***************************************************************************)
MaxStageOps == 2       \* add / rm commands in one behaviour

\* find_gitqlite_root(current_dir) and its .gitqlite directory
repo_root == <<"repo">>
gitqlite_home == Append(repo_root, ".gitqlite")

\* The path arguments of add and rm: two files of the repository, a file of
\* another directory under its plain name and under a name that goes
\* through the repository, and a file of the .gitqlite directory.
ArgPaths == { <<"repo", "a.txt">>, <<"repo", "dir", "b.txt">>,
              <<"other", "a.txt">>, <<"repo", "..", "other", "a.txt">>,
              <<"repo", ".gitqlite", "x.txt">> }

\* The files the model writes and deletes, and what a file holds.
WorkFiles == { <<"repo", "a.txt">>, <<"repo", "dir", "b.txt">> }
FileStates == [data : Contents, mtime : {1, 2}]

RECURSIVE Resolve(_)
\* The file a path names to the operating system (fs::File::open,
\* dunce::canonicalize): ".." leaves the directory reached so far.
Resolve(p) ==
    IF p = <<>> THEN <<>>
    ELSE LET r == Resolve(Parent(p))
         IN  IF FileName(p) = ".." THEN Parent(r) ELSE Append(r, FileName(p))

\* Path::starts_with: component by component, ".." is a component
IsPrefix(base, p) == Len(base) <= Len(p) /\ SubSeq(p, 1, Len(base)) = base

\* Path::strip_prefix
strip_prefix(p, base) == SubSeq(p, Len(base) + 1, Len(p))

\* The paths that exist: the files and the directories above them.
Existing(fs) ==
    UNION { { SubSeq(f, 1, k) : k \in 1..Len(f) } : f \in DOMAIN fs }

\* glob::Pattern on one component, for the patterns of the model
GlobMatch(pat, name) ==
    IF pat = "*.txt"
    THEN name \in {"a.txt", "b.txt", "x.txt", "file.txt", "keep.txt"}
    ELSE pat = name

Expand_AnyDepth(fs, dir, pat) ==
    { e \in Existing(fs) : /\ Len(e) > Len(dir)
                           /\ IsPrefix(dir, e)
                           /\ GlobMatch(IF pat = "**/*.txt" THEN "*.txt" ELSE pat,
                                        FileName(e)) }

\* glob::glob(dir.join(pat)): the existing paths the pattern expands to.
\* A pattern of one component matches entries of dir itself; "**/" in
\* front of it matches through any number of directories below dir.
Expand(fs, dir, pat) ==
    IF pat = "**/*.txt"
    THEN { e \in Existing(fs) : /\ Len(e) > Len(dir)
                                /\ IsPrefix(dir, e)
                                /\ GlobMatch("*.txt", FileName(e)) }
    ELSE { e \in Existing(fs) : /\ Len(e) = Len(dir) + 1
                                /\ IsPrefix(dir, e)
                                /\ GlobMatch(pat, FileName(e)) }

check_gitignore_one_First(fs, dir, rs, target) ==
    LET hits == { i \in 1..Len(rs) :
                    \E e \in Expand(fs, dir, rs[i][2]) : IsPrefix(e, target) }
    IN  IF hits = {} THEN NoneV
        ELSE LET i == CHOOSE i \in hits : \A j \in hits : i <= j
             IN  Some(rs[i][1] = "Exclude")

\* The rules of one .gitignore, from the last to the first: the first rule
\* with an expansion the target starts with decides.
check_gitignore_one(fs, dir, rs, target) ==
    LET hits == { i \in 1..Len(rs) :
                    \E e \in Expand(fs, dir, rs[i][2]) : IsPrefix(e, target) }
    IN  IF hits = {} THEN NoneV
        ELSE LET i == CHOOSE i \in hits : \A j \in hits : j <= i
             IN  Some(rs[i][1] = "Exclude")

check_ignore_scoped_Nearest(fs, scoped, target) ==
    LET ks == { k \in 0..(Len(target) - 1) : SubSeq(target, 1, k) \in DOMAIN scoped }
    IN  IF ks = {} THEN NoneV
        ELSE LET k == CHOOSE k \in ks : \A j \in ks : j <= k
             IN  check_gitignore_one(fs, SubSeq(target, 1, k),
                                     scoped[SubSeq(target, 1, k)], target)

\* target.ancestors().skip(1), nearest first: the first directory whose
\* rules decide is the answer; a directory whose rules do not decide is
\* passed over.
check_ignore_scoped(fs, scoped, target) ==
    LET decide(k) == check_gitignore_one(fs, SubSeq(target, 1, k),
                                         scoped[SubSeq(target, 1, k)], target)
        ks == { k \in 0..(Len(target) - 1) :
                  /\ SubSeq(target, 1, k) \in DOMAIN scoped
                  /\ IsSome(decide(k)) }
    IN  IF ks = {} THEN NoneV
        ELSE decide(CHOOSE k \in ks : \A j \in ks : j <= k)

\* GitIgnore::should_ignore (check_gitignore): not ignored by default
should_ignore(fs, ignore, target) ==
    LET r == check_ignore_scoped(fs, ignore.scoped, target)
    IN  IF IsSome(r) THEN Unwrap(r) ELSE FALSE

\* read_gitignore(root): the rule files of the directories under root
read_gitignore(all, root) ==
    [scoped |-> [d \in { d \in DOMAIN all : IsPrefix(root, d) } |-> all[d]]]

\* The .gitignore files of the working tree: none; "*.txt" at the root;
\* that with "!b.txt" in dir; "dir" at the root; "*.txt" in .gitqlite.
RuleFiles ==
    { EmptyFn,
      (repo_root :> << <<"Exclude", "*.txt">> >>),
      (repo_root :> << <<"Exclude", "*.txt">> >>)
         @@ (<<"repo", "dir">> :> << <<"Negate", "b.txt">> >>),
      (repo_root :> << <<"Exclude", "dir">> >>),
      (gitqlite_home :> << <<"Exclude", "*.txt">> >>) }

\* The history when the last step was no add and no rm.
NoCommand(op, staged) ==
    [op |-> op, path |-> <<>>, out |-> Ok(<<>>),
     pre |-> [index |-> <<>>, blobs |-> EmptyBag, files |-> EmptyFn],
     staged |-> staged]

\* A file of the working tree is written or deleted outside the program.
WriteFile ==
    /\ \E f \in WorkFiles, v \in FileStates :
          /\ (IF f \in DOMAIN files THEN files[f] # v ELSE TRUE)
          /\ files' = [g \in DOMAIN files \cup {f} |->
                          IF g = f THEN v ELSE files[g]]
    /\ st' = NoCommand("file", st.staged)
    /\ UNCHANGED <<cmdVars, dbVars, fnVars, rules, st_n>>

RemoveFile ==
    /\ \E f \in WorkFiles \cap DOMAIN files :
          files' = [g \in DOMAIN files \ {f} |-> files[g]]
    /\ st' = NoCommand("file", st.staged)
    /\ UNCHANGED <<cmdVars, dbVars, fnVars, rules, st_n>>

\* do_add with its checks.  st.staged follows what each successful add
\* recorded under the name it staged, and what a successful rm took away.
do_add_path ==
    /\ pc = "idle"
    /\ st_n < MaxStageOps
    /\ \E path \in ArgPaths :
          LET ignore == read_gitignore(rules, gitqlite_home)
              file == Resolve(path)
              rel_path == strip_prefix(path, repo_root)
              out == IF ~IsPrefix(repo_root, path) THEN Err("outside")
                     ELSE IF should_ignore(files, ignore, path) THEN Err("ignored")
                     ELSE IF file \notin DOMAIN files THEN Err("not a file")
                     ELSE Ok(rel_path)
              blob_id == Blob_hash(files[file].data)
              entry == [name |-> rel_path, sha |-> blob_id,
                        mtime |-> files[file].mtime, mode_perms |-> 420]
          IN  /\ IF IsOk(out)
                 THEN /\ blobs' = Blob_persist(blobs, blob_id, files[file].data)
                      /\ index' = IndexReplace(index, entry)
                 ELSE UNCHANGED <<blobs, index>>
              /\ st' = [op |-> "add", path |-> path, out |-> out,
                        pre |-> [index |-> index, blobs |-> blobs, files |-> files],
                        staged |-> IF IsOk(out)
                                   THEN [n \in DOMAIN st.staged \cup {rel_path} |->
                                            IF n = rel_path
                                            THEN [sha |-> blob_id,
                                                  mtime |-> files[file].mtime]
                                            ELSE st.staged[n]]
                                   ELSE st.staged]
    /\ st_n' = st_n + 1
    /\ last' = Other
    /\ UNCHANGED <<config, trees, commits, refs, head, pc,
                   directory_entries, keys, tree_map, cur, nops>>
    /\ UNCHANGED <<dbVars, fnVars, files, rules>>

\* Index::remove: the path is canonicalized (it must exist), made relative
\* to the root, and the entries under that name are taken out.
Index_remove(idx, root, path, fs) ==
    LET canonical == Resolve(path)
        name == strip_prefix(canonical, root)
        removed == SelectSeq(idx, LAMBDA e : e.name = name)
    IN  IF canonical \notin Existing(fs) THEN Err("not found")
        ELSE IF ~IsPrefix(root, canonical) THEN Err("outside")
        ELSE Ok(<<SelectSeq(idx, LAMBDA e : e.name # name),
                  IF removed = <<>> THEN NoneV ELSE Some(removed)>>)

\* do_rm: the index is read, the path removed from it, the index written.
do_rm ==
    /\ pc = "idle"
    /\ st_n < MaxStageOps
    /\ \E path \in ArgPaths :
          LET r == Index_remove(index, repo_root, path, files)
              name == strip_prefix(Resolve(path), repo_root)
          IN  /\ index' = IF IsOk(r) THEN r[2][1] ELSE index
              /\ st' = [op |-> "rm", path |-> path, out |-> r,
                        pre |-> [index |-> index, blobs |-> blobs, files |-> files],
                        staged |-> IF IsOk(r)
                                   THEN [n \in DOMAIN st.staged \ {name} |->
                                            st.staged[n]]
                                   ELSE st.staged]
    /\ st_n' = st_n + 1
    /\ last' = Other
    /\ UNCHANGED <<config, blobs, trees, commits, refs, head, pc,
                   directory_entries, keys, tree_map, cur, nops>>
    /\ UNCHANGED <<dbVars, fnVars, files, rules>>

NextStage ==
    \/ WriteFile
    \/ RemoveFile
    \/ do_add_path
    \/ do_rm

\* A fresh repository in a working tree with some .gitignore files; the
\* files outside the working directory's reach are there from the start.
InitStage ==
    /\ InitStore
    /\ fn_op = "none" /\ fn_args = <<>> /\ fn_out = <<>>
    /\ files = (<<"other", "a.txt">> :> [data |-> "x", mtime |-> 1])
                  @@ (<<"repo", ".gitqlite", "x.txt">> :> [data |-> "x", mtime |-> 1])
    /\ rules \in RuleFiles
    /\ st = NoCommand("none", EmptyFn)
    /\ st_n = 0

SpecStage == InitStage /\ [][NextStage]_vars

\* C13: whatever adds and rms were run, no two entries of the index have
\* the same path, the entries are exactly the paths staged and not unstaged
\* since, each with the blob id and the mtime its most recent add recorded,
\* and a successful add leaves the entries of the other paths as they were.
C13_IndexOneEntryPerPath ==
    LET entries(idx) == { idx[i] : i \in 1..Len(idx) }
    IN  /\ \A i, j \in 1..Len(index) : i # j => index[i].name # index[j].name
        /\ { e.name : e \in entries(index) } = DOMAIN st.staged
        /\ \A e \in entries(index) :
              /\ e.sha = st.staged[e.name].sha
              /\ e.mtime = st.staged[e.name].mtime
        /\ (st.op = "add" /\ IsOk(st.out)) =>
              { e \in entries(index) : e.name # st.out[2] }
                 = { e \in entries(st.pre.index) : e.name # st.out[2] }

\* A path staged before is staged again with another content, next to the
\* entry of another path or alone.
C13_Witness ==
    /\ st.op = "add"
    /\ IsOk(st.out)
    /\ \E i \in 1..Len(st.pre.index) :
          /\ st.pre.index[i].name = st.out[2]
          /\ st.pre.index[i].sha # Blob_hash(files[Resolve(st.path)].data)

\* C14: an add of a path that names a file outside the repository root
\* fails, and leaves the index and the Blobs table as they were.
C14_OutsideRootFails ==
    (st.op = "add" /\ ~IsPrefix(repo_root, Resolve(st.path))) =>
        /\ ~IsOk(st.out)
        /\ index = st.pre.index
        /\ blobs = st.pre.blobs

\* C15: an add of a path that the .gitignore files under the repository
\* root exclude fails, and leaves the index and the Blobs table as they
\* were.
C15_IgnoredFails ==
    (/\ st.op = "add"
     /\ should_ignore(files, read_gitignore(rules, repo_root), st.path)) =>
        /\ ~IsOk(st.out)
        /\ index = st.pre.index
        /\ blobs = st.pre.blobs

\* C16: an rm of a path with entries in the index takes exactly these
\* entries out and returns them; an rm of a path without entries returns
\* None and leaves the index as it was; the working tree is as it was in
\* both cases.
C16_Unstage ==
    st.op = "rm" =>
        LET name == strip_prefix(Resolve(st.path), repo_root)
            was == IF IsPrefix(repo_root, Resolve(st.path))
                   THEN SelectSeq(st.pre.index, LAMBDA e : e.name = name)
                   ELSE <<>>
        IN  /\ IsOk(st.out)
            /\ st.out[2][2] = (IF was = <<>> THEN NoneV ELSE Some(was))
            /\ index = SelectSeq(st.pre.index, LAMBDA e : e.name # name)
            /\ files = st.pre.files

(***************************************************************************)
(* The singleton snapshots and the refs of repo::db.                       *)
(***************************************************************************)
\* C17: every persist of a Head (of an Index) leaves the Head (Index_)
\* table with exactly one row from which a read returns the value just
\* persisted, and no other call changes the table: a read returns the last
\* value persisted and nothing of the earlier ones.
C17_SingletonOverwrite ==
    [][ /\ IF db_last'[1] = "head" /\ db_n' # db_n
           THEN /\ Len(db_head') = 1
                /\ DbHead_read_by_id(db_head') = Ok(Some(db_last'[2]))
           ELSE db_head' = db_head
        /\ IF db_last'[1] = "index" /\ db_n' # db_n
           THEN /\ Len(db_index') = 1
                /\ DbIndex_read_by_id(db_index') = Ok(Some(db_last'[2]))
           ELSE db_index' = db_index ]_vars

\* Three persists, all of them of a Head or an Index, and both tables
\* written: one of the two tables was overwritten.
C17_Witness ==
    /\ db_n = 3
    /\ db_blobs = EmptyFn /\ db_trees = EmptyFn
    /\ db_commits = EmptyFn /\ db_refs = EmptyFn
    /\ Len(db_head) = 1
    /\ Len(db_index) = 1

\* C18: a persist of a Ref named n makes a read of n return the commit id
\* just persisted and leaves the row of every other name as it was; no
\* other call changes the Refs table.  The table has one row per name (its
\* key), so a read of n returns the commit id of the last persist under n.
C18_RefLastWriteWins ==
    [][ IF db_last'[1] = "ref" /\ db_n' # db_n
        THEN /\ DbRef_read_from_with_name(db_refs', db_last'[2].name)
                   = Ok(Some(db_last'[2]))
             /\ \A n \in BranchNames \ {db_last'[2].name} :
                   DbRef_read_from_with_name(db_refs', n)
                      = DbRef_read_from_with_name(db_refs, n)
             /\ DOMAIN db_refs' = DOMAIN db_refs \cup {db_last'[2].name}
        ELSE db_refs' = db_refs ]_vars

\* Three persists, all of Refs, under two names: one name was persisted
\* again.
C18_Witness ==
    /\ db_n = 3
    /\ db_last[1] = "ref"
    /\ db_blobs = EmptyFn /\ db_trees = EmptyFn /\ db_commits = EmptyFn
    /\ db_head = <<>> /\ db_index = <<>>
    /\ DOMAIN db_refs = BranchNames

(***************************************************************************)
(* do_status.  A name of the index and a key of the tree view are strings, *)
(* modelled as the sequence of their parts: the names of the components    *)
(* and the separators "/" between them.                                    *)
(***************************************************************************)
RECURSIVE PathString(_)
\* to_string_lossy of a relative path
PathString(p) ==
    IF Len(p) <= 1 THEN p
    ELSE PathString(Parent(p)) \o <<"/", FileName(p)>>

\* The Trees table status reads: an empty tree, a tree with a.txt, and a
\* tree with a.txt and the directory dir that holds b.txt.
StatusTrees ==
    ("T0" :> <<>>)
    @@ ("T1" :> << [type_ |-> "Blob", id |-> Blob_hash("x"), name |-> "a.txt"] >>)
    @@ ("T2" :> << [type_ |-> "Blob", id |-> Blob_hash("x"), name |-> "a.txt"],
                   [type_ |-> "Tree", id |-> "T3", name |-> "dir"] >>)
    @@ ("T3" :> << [type_ |-> "Blob", id |-> Blob_hash("y"), name |-> "b.txt"] >>)

\* What Head resolves to: no commit yet, or the root tree of the commit,
\* given with the files the tree holds (path -> blob id).
HeadTrees ==
    { [tree_id |-> NoneV, holds |-> EmptyFn],
      [tree_id |-> Some("T0"), holds |-> EmptyFn],
      [tree_id |-> Some("T1"), holds |-> (PathString(<<"a.txt">>) :> Blob_hash("x"))],
      [tree_id |-> Some("T2"),
       holds |-> (PathString(<<"a.txt">>) :> Blob_hash("x"))
                 @@ (PathString(<<"dir", "b.txt">>) :> Blob_hash("y"))] }

\* index_map(read_gitqlite_index(..)), reduced to name -> sha
StatusIndexes ==
    UNION { [names -> {Blob_hash("x"), Blob_hash("y")}] :
              names \in SUBSET { PathString(<<"a.txt">>), PathString(<<"b.txt">>),
                                 PathString(<<"dir", "b.txt">>) } }

RECURSIVE tree_view(_, _, _)
\* tree_view: the pairs (full name, blob id) under the tree, every name
\* built as prefix + "/" + entry.name from the prefix ""
tree_view(tbl, tree_id, prefix) ==
    UNION { IF tbl[tree_id][i].type_ = "Blob"
            THEN { <<prefix \o <<"/", tbl[tree_id][i].name>>, tbl[tree_id][i].id>> }
            ELSE tree_view(tbl, tbl[tree_id][i].id,
                           prefix \o <<"/", tbl[tree_id][i].name>>)
            : i \in 1..Len(tbl[tree_id]) }

\* get_head_tree_view, and the empty map do_status takes for None
get_head_tree_view(tbl, tree_id) ==
    IF IsSome(tree_id)
    THEN LET pairs == tree_view(tbl, Unwrap(tree_id), <<>>)
         IN  [k \in { q[1] : q \in pairs } |->
                 (CHOOSE q \in pairs : q[1] = k)[2]]
    ELSE EmptyFn

\* print_diff_index_head: the three lists it prints, as sets
print_diff_index_head(idx, head_tree_view) ==
    [added |-> { n \in DOMAIN idx : n \notin DOMAIN head_tree_view },
     modified |-> { n \in DOMAIN idx :
                      IF n \in DOMAIN head_tree_view
                      THEN head_tree_view[n] # idx[n] ELSE FALSE },
     deleted |-> { f \in DOMAIN head_tree_view : f \notin DOMAIN idx }]

StatusPhaseA ==
    /\ fn_op = "none"
    /\ fn_args[1] = "phaseA"
    /\ fn_out' = print_diff_index_head(
                    fn_args[3], get_head_tree_view(StatusTrees, fn_args[2].tree_id))
    /\ fn_op' = "phaseA"
    /\ UNCHANGED <<nonFnVars, fn_args>>

\* C19: Phase A reports as added the paths of the index that the tree of
\* Head does not hold, as modified the paths in both with different blob
\* ids, as deleted the paths the tree holds that are not in the index, and
\* nothing else.
C19_PhaseAClassifies ==
    fn_op = "phaseA" =>
        LET holds == fn_args[2].holds
            idx == fn_args[3]
        IN  /\ fn_out.added = DOMAIN idx \ DOMAIN holds
            /\ fn_out.modified = { n \in DOMAIN idx \cap DOMAIN holds :
                                     idx[n] # holds[n] }
            /\ fn_out.deleted = DOMAIN holds \ DOMAIN idx

\* Phase B.  The working trees and indexes it is run on: each of the two
\* working files absent or present with some content and mtime, each of
\* their names absent from the index or recorded with some sha and mtime.
StatusWorkTrees ==
    { fs @@ (<<"repo", ".gitqlite", "x.txt">> :> [data |-> "x", mtime |-> 1]) :
        fs \in UNION { [fset -> FileStates] : fset \in SUBSET WorkFiles } }
StatusWorkIndexes ==
    UNION { [names -> [sha : {Blob_hash(c) : c \in Contents}, mtime : {1, 2}]] :
              names \in SUBSET { PathString(strip_prefix(f, repo_root)) :
                                   f \in WorkFiles } }

RECURSIVE walk(_, _, _)
\* The files met by the walk from cur_directory on: .gitqlite and .git are
\* left out, an ignored entry is skipped, a directory is walked in turn.
walk(fs, gitignore, cur_directory) ==
    IF \/ IsPrefix(gitqlite_home, cur_directory)
       \/ IsPrefix(Append(repo_root, ".git"), cur_directory)
    THEN {}
    ELSE LET read_dir == { e \in Existing(fs) :
                             /\ Len(e) = Len(cur_directory) + 1
                             /\ IsPrefix(cur_directory, e)
                             /\ ~should_ignore(fs, gitignore, e) }
         IN  (read_dir \cap DOMAIN fs)
             \cup UNION { walk(fs, gitignore, d) : d \in read_dir \ DOMAIN fs }

is_modified_Hash(entry, file) == Blob_hash(file.data) # entry.sha

\* is_modified: the content is hashed only when the mtime differs
is_modified(entry, file) ==
    IF file.mtime # entry.mtime
    THEN Blob_hash(file.data) # entry.sha
    ELSE FALSE

\* print_diff_index_worktree: the three lists it prints, as sets
print_diff_index_worktree(fs, idx, rule_files) ==
    LET met == walk(fs, read_gitignore(rule_files, repo_root), repo_root)
        rel_path(f) == PathString(strip_prefix(f, repo_root))
    IN  [added |-> { rel_path(f) : f \in { g \in met : rel_path(g) \notin DOMAIN idx } },
         modified |-> { rel_path(f) :
                          f \in { g \in met :
                                    IF rel_path(g) \in DOMAIN idx
                                    THEN is_modified(idx[rel_path(g)], fs[g])
                                    ELSE FALSE } },
         deleted |-> DOMAIN idx \ { rel_path(f) : f \in met }]

StatusPhaseB ==
    /\ fn_op = "none"
    /\ fn_args[1] = "phaseB"
    /\ fn_out' = print_diff_index_worktree(fn_args[2], fn_args[3], fn_args[4])
    /\ fn_op' = "phaseB"
    /\ UNCHANGED <<nonFnVars, fn_args>>

NextStatus ==
    \/ StatusPhaseA
    \/ StatusPhaseB

InitStatus ==
    /\ InitStore
    /\ InitWorkTree
    /\ fn_op = "none"
    /\ fn_out = <<>>
    /\ fn_args \in { <<"phaseA", t, idx>> : t \in HeadTrees, idx \in StatusIndexes }
                   \cup { <<"phaseB", fs, idx, rs>> :
                            fs \in StatusWorkTrees, idx \in StatusWorkIndexes,
                            rs \in RuleFiles }

SpecStatus == InitStatus /\ [][NextStatus]_vars

\* C20: of the files of the working tree outside .gitqlite and .git that
\* no rule ignores, them or a directory above them, Phase B reports as
\* untracked those that are not in the index, reports nothing for those in
\* the index with the recorded mtime, whatever their content, and reports
\* as modified those in the index with another mtime exactly when the hash
\* of their content is not the recorded sha.
C20_PhaseBClassifies ==
    fn_op = "phaseB" =>
        LET fs == fn_args[2]
            idx == fn_args[3]
            gitignore == read_gitignore(fn_args[4], repo_root)
            met == { f \in DOMAIN fs :
                       /\ IsPrefix(repo_root, f)
                       /\ ~IsPrefix(gitqlite_home, f)
                       /\ \A k \in (Len(repo_root) + 1)..Len(f) :
                             ~should_ignore(fs, gitignore, SubSeq(f, 1, k)) }
        IN  \A f \in met :
               LET n == PathString(strip_prefix(f, repo_root))
               IN  IF n \notin DOMAIN idx
                   THEN n \in fn_out.added /\ n \notin fn_out.modified
                   ELSE /\ n \notin fn_out.added
                        /\ n \notin fn_out.deleted
                        /\ IF fs[f].mtime = idx[n].mtime
                           THEN n \notin fn_out.modified
                           ELSE n \in fn_out.modified
                                   <=> Blob_hash(fs[f].data) # idx[n].sha

\* A file met by the walk is in the index with its mtime and another
\* content, and is not reported.
C20_Witness ==
    /\ fn_op = "phaseB"
    /\ \E f \in WorkFiles \cap DOMAIN fn_args[2] :
          LET n == PathString(strip_prefix(f, repo_root))
          IN  /\ ~should_ignore(fn_args[2], read_gitignore(fn_args[4], repo_root), f)
              /\ n \in DOMAIN fn_args[3]
              /\ fn_args[2][f].mtime = fn_args[3][n].mtime
              /\ Blob_hash(fn_args[2][f].data) # fn_args[3][n].sha
              /\ n \notin fn_out.modified

\* C21: Phase B reports as deleted exactly the paths of the index at which
\* the working tree has no file; a path of the index whose file is still
\* there is not reported deleted.
C21_PhaseBDeleted ==
    fn_op = "phaseB" =>
        fn_out.deleted
           = { PathString(strip_prefix(f, repo_root)) :
                 f \in { g \in WorkFiles :
                           /\ g \notin DOMAIN fn_args[2]
                           /\ PathString(strip_prefix(g, repo_root))
                                 \in DOMAIN fn_args[3] } }

(***************************************************************************)
(* The ignore matcher on its own: should_ignore applied to one target      *)
(* under one table of rule lists.                                          *)
(***************************************************************************)
MaxRules == 2          \* rules of the root's .gitignore

\* The working tree the patterns are expanded in.
IgnoreTree ==
    [f \in { <<"repo", "a.txt">>, <<"repo", "keep.txt">>,
             <<"repo", "subdir", "file.txt">> } |-> [data |-> "x", mtime |-> 1]]

\* gitignore_parse_one: the rules of the model
IgnoreRules ==
    { <<kind, pat>> : kind \in {"Exclude", "Negate"},
                      pat \in {"*.txt", "keep.txt", "file.txt", "**/*.txt"} }

\* The tables of rule lists: the root and subdir each without a .gitignore
\* or with a list of rules.
ScopedTables ==
    LET lists(n) == UNION { [1..k -> IgnoreRules] : k \in 0..n }
        at(dir, ls) == { EmptyFn } \cup { (dir :> l) : l \in ls }
    IN  { r @@ d : r \in at(repo_root, lists(MaxRules)),
                   d \in at(<<"repo", "subdir">>, lists(1)) }

CheckIgnore ==
    /\ fn_op = "none"
    /\ fn_args[1] = "ignore"
    /\ fn_out' = <<should_ignore(IgnoreTree,
                                 read_gitignore(fn_args[2], repo_root), fn_args[3])>>
    /\ fn_op' = "ignore"
    /\ UNCHANGED <<nonFnVars, fn_args>>

InitIgnore ==
    /\ InitStore
    /\ InitWorkTree
    /\ fn_op = "none"
    /\ fn_out = <<>>
    /\ fn_args \in { <<"ignore", t, f>> : t \in ScopedTables, f \in DOMAIN IgnoreTree }

SpecIgnore == InitIgnore /\ [][CheckIgnore]_vars

\* The rules of the list rs of directory dir whose expansion contains the
\* target (the target or a directory above it), by position.
RuleHits(dir, rs, target) ==
    { i \in 1..Len(rs) :
        \E e \in Expand(IgnoreTree, dir, rs[i][2]) : IsPrefix(e, target) }

\* The directories above the target that own a rule list, by depth.
Owners(scoped, target) ==
    { k \in 0..(Len(target) - 1) : SubSeq(target, 1, k) \in DOMAIN scoped }

\* C22 as stated: the list of the nearest directory above the target that
\* owns one decides alone; when none of its rules matches, the target is
\* not ignored whatever the lists farther up say.
C22_NearestListOnly ==
    fn_op = "ignore" =>
        LET ks == Owners(fn_args[2], fn_args[3])
        IN  IF ks = {} THEN fn_out[1] = FALSE
            ELSE LET k == CHOOSE k \in ks : \A j \in ks : j <= k
                     dir == SubSeq(fn_args[3], 1, k)
                     hits == RuleHits(dir, fn_args[2][dir], fn_args[3])
                 IN  IF hits = {} THEN fn_out[1] = FALSE
                     ELSE fn_out[1] = (fn_args[2][dir][CHOOSE i \in hits :
                                          \A j \in hits : j <= i][1] = "Exclude")

\* C22, amended: the nearest directory above the target whose list has a
\* rule matching the target decides; a list without a matching rule is
\* passed over for the next directory up; with no matching rule anywhere
\* the target is not ignored.
C22_NearestMatchingList ==
    fn_op = "ignore" =>
        LET ks == { k \in Owners(fn_args[2], fn_args[3]) :
                      RuleHits(SubSeq(fn_args[3], 1, k),
                               fn_args[2][SubSeq(fn_args[3], 1, k)],
                               fn_args[3]) # {} }
        IN  IF ks = {} THEN fn_out[1] = FALSE
            ELSE LET k == CHOOSE k \in ks : \A j \in ks : j <= k
                     dir == SubSeq(fn_args[3], 1, k)
                     hits == RuleHits(dir, fn_args[2][dir], fn_args[3])
                 IN  fn_out[1] = (fn_args[2][dir][CHOOSE i \in hits :
                                     \A j \in hits : j <= i][1] = "Exclude")

\* subdir owns a list with no rule for subdir/file.txt, the root's list has
\* one that excludes it: the file is ignored.
C22_Witness ==
    /\ fn_op = "ignore"
    /\ fn_args[3] = <<"repo", "subdir", "file.txt">>
    /\ <<"repo", "subdir">> \in DOMAIN fn_args[2]
    /\ repo_root \in DOMAIN fn_args[2]
    /\ RuleHits(<<"repo", "subdir">>, fn_args[2][<<"repo", "subdir">>], fn_args[3]) = {}
    /\ RuleHits(repo_root, fn_args[2][repo_root], fn_args[3]) # {}
    /\ fn_out[1] = TRUE

\* C23: with the root's list as the only rule list, a target in the root
\* is ignored exactly when the last rule of the list that matches it is an
\* exclude rule (not ignored when no rule matches); for the list
\* [*.txt, !keep.txt] keep.txt is not ignored and a.txt is.
C23_LastMatchingRuleDecides ==
    (/\ fn_op = "ignore"
     /\ DOMAIN fn_args[2] = {repo_root}
     /\ Len(fn_args[3]) = 2) =>
        LET rs == fn_args[2][repo_root]
            hits == RuleHits(repo_root, rs, fn_args[3])
        IN  /\ fn_out[1] = (/\ hits # {}
                            /\ \E i \in hits : /\ rs[i][1] = "Exclude"
                                               /\ \A j \in hits : j <= i)
            /\ rs = << <<"Exclude", "*.txt">>, <<"Negate", "keep.txt">> >> =>
                  fn_out[1] = (fn_args[3] # <<"repo", "keep.txt">>)

\* keep.txt under the list [*.txt, !keep.txt]: both rules match it and the
\* later one decides.
C23_Witness ==
    /\ fn_op = "ignore"
    /\ fn_args[2] = (repo_root :> << <<"Exclude", "*.txt">>, <<"Negate", "keep.txt">> >>)
    /\ fn_args[3] = <<"repo", "keep.txt">>
    /\ fn_out[1] = FALSE

\* C24 as stated: the rule *.txt in the root's list excludes
\* subdir/file.txt when subdir has no list, and !file.txt in subdir's own
\* list makes subdir/file.txt not ignored.
C24_RootStarTxt ==
    (/\ fn_op = "ignore"
     /\ fn_args[3] = <<"repo", "subdir", "file.txt">>
     /\ repo_root \in DOMAIN fn_args[2]) =>
        (fn_args[2][repo_root] = << <<"Exclude", "*.txt">> >> =>
            IF <<"repo", "subdir">> \notin DOMAIN fn_args[2]
            THEN fn_out[1] = TRUE
            ELSE fn_args[2][<<"repo", "subdir">>] = << <<"Negate", "file.txt">> >>
                    => fn_out[1] = FALSE)

\* C24, amended: the rule **/*.txt in the root's list excludes
\* subdir/file.txt when subdir has no list, the rule *.txt there does not
\* (it expands to the entries of the root itself), and under either root
\* rule !file.txt in subdir's own list makes subdir/file.txt not ignored.
C24_RootDeepTxt ==
    (/\ fn_op = "ignore"
     /\ fn_args[3] = <<"repo", "subdir", "file.txt">>
     /\ repo_root \in DOMAIN fn_args[2]
     /\ Len(fn_args[2][repo_root]) = 1
     /\ fn_args[2][repo_root][1][1] = "Exclude"
     /\ fn_args[2][repo_root][1][2] \in {"*.txt", "**/*.txt"}) =>
        IF <<"repo", "subdir">> \notin DOMAIN fn_args[2]
        THEN fn_out[1] = (fn_args[2][repo_root][1][2] = "**/*.txt")
        ELSE fn_args[2][<<"repo", "subdir">>] = << <<"Negate", "file.txt">> >>
                => fn_out[1] = FALSE

\* The root's list is [**/*.txt], subdir has none: subdir/file.txt is
\* ignored.
C24_Witness ==
    /\ fn_op = "ignore"
    /\ fn_args[2] = (repo_root :> << <<"Exclude", "**/*.txt">> >>)
    /\ fn_args[3] = <<"repo", "subdir", "file.txt">>
    /\ fn_out[1] = TRUE

C30_CommitEncodingUnambiguous ==
    (fn_op = "commit" /\ fn_args[2] # fn_args[3]) =>
        /\ CommitText(fn_args[2]) # CommitText(fn_args[3])
        /\ fn_out[1] # fn_out[2]

(***************************************************************************)
(* The stored object graph: what is checked.                               *)
(***************************************************************************)
\* C26: every tree that commit construction persists has at most one entry
\* per name, whatever the staging index, also when the index holds a path
\* and a path below it.
C26_TreeNamesUnique ==
    \A id \in DOMAIN trees :
        LET es == decode_entries(trees[id])
        IN  \A i, j \in 1..Len(es) : i # j => es[i].name # es[j].name

\* The ids a stored commit, or a stored tree, points to inside its own table.
CommitParents(c) == { commits[c].parent_ids[i] : i \in 1..Len(commits[c].parent_ids) }
ChildTrees(t) == { e.id : e \in { x \in StoredEntries(t) : x.type_ = "Tree" } }

\* C27: after any sequence of init, add, rm and commit operations the stored
\* object graph is closed and acyclic: the tree and every parent of every
\* stored commit is stored, every entry of every stored tree references a
\* stored blob or tree, and no commit or tree reaches itself.
C27_GraphClosedAcyclic ==
    /\ \A c \in DOMAIN commits :
          /\ commits[c].tree_id \in DOMAIN trees
          /\ CommitParents(c) \subseteq DOMAIN commits
    /\ \A t \in DOMAIN trees :
          \A e \in StoredEntries(t) :
              IF e.type_ = "Blob" THEN BlobPresent(e.id) ELSE e.id \in DOMAIN trees
    /\ \A S \in SUBSET (DOMAIN commits) \ {{}} :
          \E c \in S : CommitParents(c) \cap S = {}
    /\ \A S \in SUBSET (DOMAIN trees) \ {{}} :
          \E t \in S : ChildTrees(t) \cap S = {}

\* A second commit, with a parent, whose trees are nested.
C27_Witness ==
    /\ pc = "idle"
    /\ last.op = "commit"
    /\ last.outcome = "ok"
    /\ CommitParents(Unwrap(last.commit_id)) # {}
    /\ ChildTrees(commits[Unwrap(last.commit_id)].tree_id) # {}

\* C28: after any sequence of add, hash-object -w and commit operations the
\* id of every stored blob, tree and commit is the hash of the content stored
\* under it.
C28_IdsAreContentHashes ==
    /\ \A r \in BagToSet(blobs) : r[1] = Blob_hash(r[2])
    /\ \A t \in DOMAIN trees : t = Tree_hash(decode_entries(trees[t]))
    /\ \A c \in DOMAIN commits : c = Commit_hash(commits[c])

\* Two blob rows, a tree with entries and two commits are stored.
C28_Witness ==
    /\ pc = "idle"
    /\ BagCardinality(blobs) = 2
    /\ \E t \in DOMAIN trees : trees[t] # <<>>
    /\ Cardinality(DOMAIN commits) = 2

\* index_map of an index of the command layer: path string -> blob id
index_map(idx) ==
    [n \in { PathString(idx[i].name) : i \in 1..Len(idx) } |->
        (CHOOSE e \in { idx[i] : i \in 1..Len(idx) } : PathString(e.name) = n).sha]

\* C29: after a successful commit of index I, flattening the root tree of the
\* new commit gives the map path -> blob id of I, keyed as the index is, so
\* that the index/Head comparison of status lists no path.
C29_BuildFlattenInverse ==
    (pc = "idle" /\ last.op = "commit" /\ last.outcome = "ok") =>
        LET root == commits[Unwrap(last.commit_id)].tree_id
            rows == [t \in DOMAIN trees |-> decode_entries(trees[t])]
            view == get_head_tree_view(rows, Some(root))
            diff == print_diff_index_head(index_map(index), view)
        IN  /\ view = index_map(index)
            /\ diff.added = {}
            /\ diff.modified = {}
            /\ diff.deleted = {}

====
